---------------------------- MODULE Spec2Model ----------------------------
(***************************************************************************)
(* The pairing / identity-resolution flow of the mecha-agent client app    *)
(* (SvelteKit screens under src/client/app/src/routes), as state machines. *)
(*                                                                         *)
(* Every screen is a Svelte component: its `let` variables are the state,  *)
(* its timers (setInterval / setTimeout) and the completions of its agent  *)
(* calls (tauri invoke) are the actions.  A handler runs to completion     *)
(* together with the reactive `$:` block that Svelte flushes in the        *)
(* microtask right after it, so each action below is a handler followed by *)
(* the reactive block.  An agent call answers after an arbitrary latency,  *)
(* or never.  Time is counted in seconds by the Tick actions; a timer that *)
(* is due fires before time moves on, timers due at the same instant fire  *)
(* in the order they were registered.                                      *)
(***************************************************************************)
EXTENDS Integers, Sequences, FiniteSets, TLC

VARIABLES
    \* ---- shared by the screens
    lastGoto,                \* the route of the latest goto(), "none" before any
    gotoCount,               \* how many goto() calls were made (saturates at MaxGotos)
    machineInfo,             \* the machineInfo store ($lib/stores)
    \* ---- link-machine screen
    provision_code,
    is_code_generated,
    is_code_provision,
    error_message,
    apiInProgress,
    is_error,
    timeout,
    generate_code_process,   \* seconds until the 60 s interval fires, or Cancelled
    provision_code_process,  \* seconds until the 20 s interval fires, or Cancelled
    update_timer,            \* seconds until the 1 s interval fires, or Cancelled
    linkMounted,             \* the component is alive (its reactive block still runs)
    generateCalls,           \* generate_code calls that have not answered yet
    provisionCalls,          \* provision_by_code calls that have not answered: code -> count
    pollGate,                \* history: "suspended" from a success=false answer until a code is
                             \* issued, "breached" once a poll has started a call meanwhile
    codeAge,                 \* history: seconds since the first code was issued, counted up to
                             \* the first submitCode call; NoCodeYet before, Untracked when
                             \* the run does not record it
    firstSubmitAge,          \* history: codeAge when the first submitCode call started
    issuanceFailed,          \* history: "failed" once a generate_code call has failed, "none"
                             \* before, "untracked" when the run does not record it
    \* ---- configure-machine screen
    get_machine_id_data,     \* the promise around get_machine_id: pending / fulfilled / rejected
    machineIdResult,         \* what get_machine_id_data settled with (machine id or error)
    checkTimeout,            \* the deadline promise: pending / rejected
    checkTimeoutTimer,       \* seconds until setTimeout(reject, 15000) fires, or Cancelled
    raceTimer,               \* seconds until the setTimeout(..., 3000) around the race fires
    race,                    \* Promise.race: unstarted / pending / fulfilled / rejected
    resolveMounted,          \* the configure-machine component is on screen
    resolveClock,            \* seconds since the component was constructed
    idSettledAt,             \* history: resolveClock when get_machine_id_data settled, -1 before
    firstSettled,            \* history: which of the two promises settled first
    \* ---- start screen and check-internet screen
    homeScreen,              \* the route on screen
    homeNav,                 \* the route of a goto whose navigation has not completed yet
    provisionStatusCalls,    \* check_machine_provision_status calls that have not answered
    homeMachineIdCalls,      \* get_machine_id calls of goNext that have not answered
    toast,                   \* the text of the latest toast.error
    checks,                  \* the check-internet components constructed so far, each with its
                             \* apiInProgress, its 2 s timeout and the state of its ping call
    notProvisionedSeen,      \* history: a provisionStatus call has answered status=false
    pingSucceeded,           \* history: a pingStatus call has answered code 'success'
    \* ---- machine-info screen
    storeData,               \* the value of the store when the component was constructed
    machine_id,
    machine_name,
    machine_icon,
    is_active,
    is_loading,
    info_is_error,           \* is_error of machine-info
    info_error_message,      \* error_message of machine-info
    healthInterval,          \* milliseconds until the 10 s interval fires, or Cancelled
    metadataInterval,        \* milliseconds until the 1.2 s interval fires, or Cancelled
    loadingTimeout,          \* milliseconds until setTimeout(..., 3000) fires, or Cancelled
    infoMounted,             \* the machine-info component is alive
    latestPing,              \* the check_ping_status call started last: none / outstanding /
                             \* success / failure / error (how it answered)
    olderPings,              \* check_ping_status calls started before it, not answered yet
    nameCalls,               \* get_machine_info calls waiting for the machine name
    iconCalls,               \* get_machine_info calls waiting for the icon: name got -> count
    iconFailed               \* history: an invoke for the icon has failed after the name was got

sharedVars == <<lastGoto, gotoCount, machineInfo>>
linkTimers == <<generate_code_process, provision_code_process, update_timer>>
linkVars == <<provision_code, is_code_generated, is_code_provision, error_message,
              apiInProgress, is_error, timeout, generate_code_process,
              provision_code_process, update_timer, linkMounted, generateCalls,
              provisionCalls, pollGate, codeAge, firstSubmitAge, issuanceFailed>>
resolveVars == <<get_machine_id_data, machineIdResult, checkTimeout, checkTimeoutTimer,
                 raceTimer, race, resolveMounted, resolveClock, idSettledAt, firstSettled>>
homeVars == <<homeScreen, homeNav, provisionStatusCalls, homeMachineIdCalls, toast,
              checks, notProvisionedSeen, pingSucceeded>>
infoVars == <<storeData, machine_id, machine_name, machine_icon, is_active, is_loading,
              info_is_error, info_error_message, healthInterval, metadataInterval,
              loadingTimeout, infoMounted, latestPing, olderPings, nameCalls, iconCalls,
              iconFailed>>
vars == <<sharedVars, linkVars, resolveVars, homeVars, infoVars>>

\* what the actions of one screen leave alone
notLinkVars == <<resolveVars, homeVars, infoVars>>
notResolveVars == <<linkVars, homeVars, infoVars>>
notHomeVars == <<linkVars, resolveVars, infoVars>>
notInfoVars == <<linkVars, resolveVars, homeVars>>

---------------------------------------------------------------------------
(* Bounds of the model *)

\* agent calls of one kind that may be outstanding at the same time
MaxPending == 2
\* gotoCount counts up to this value and stays there
MaxGotos == 2
\* check-internet components constructed in one run
MaxVisits == 2
\* get_machine_info calls that may be outstanding at the same time
MaxRefreshes == 1

---------------------------------------------------------------------------
(* Program constants *)

RotationPeriod == 60
PollPeriod == 20
CountdownPeriod == 1
TimeoutStart == 60
Cancelled == -1

\* values of the history variables of the first poll
NoCodeYet == -1
NoSubmitYet == -1
Untracked == -2

IdentityDeadline == 15
InitialDelay == 3
CheckDelay == 2

\* machine-info, in milliseconds
HealthPeriod == 10000
MetadataPeriod == 1200
LoadingDelay == 3000

NoRoute == "none"
SetupSuccessRoute == "/setup-success"
TimeoutServiceRoute == "/timeout-service"
ConfigureMachineRoute == "/configure-machine"
HomeRoute == "/"
CheckInternetRoute == "../check-internet"
MachineInfoRoute == "/machine-info"
LinkMachineRoute == "/link-machine"
NoInternetRoute == "/no-internet"
SetupFailedRoute == "/setup-failed"

Placeholder == " "
AgentCodes == {"K7Q2", "M4X9"}
AllCodes == AgentCodes \cup {Placeholder}

NoMessage == ""
SomethingWentWrong == "Something went wrong! Try again!"
IncorrectCode == "Incorrect code! Try again!"

Undefined == "undefined"
EmptyStore == [id |-> Undefined, name |-> Undefined, icon |-> Undefined]

MachineIds == {"dev-123", "dev-456"}
\* the failures of the machineId operation
MachineIdErrors == {"unreachable", "rejected"}
TimeoutReason == "Timeout"
\* the failures of the provisionStatus and pingStatus operations
AgentErrors == {"unreachable", "rejected"}
\* the status codes of pingStatus
PingCodes == {"success", "failure"}
AgentNotRunning == "Agent is not running"

NoMachineId == "-"
DefaultName == "My Machine"
\* the values the agent answers for identity.machine.name and .icon_url
MachineNames == {"", "Lobby"}
IconUrls == {"https://img/1.png"}
AgentNotReachable == "Machine agent not running or there is no internet connectivity"

---------------------------------------------------------------------------
(* Strings as sequences of characters: String.toLowerCase, String.includes *)

UpperToLower ==
    ("A" :> "a") @@ ("E" :> "e") @@ ("N" :> "n") @@ ("O" :> "o") @@
    ("P" :> "p") @@ ("R" :> "r") @@ ("S" :> "s") @@ ("T" :> "t")

toLowerCase(s) ==
    [i \in 1..Len(s) |-> IF s[i] \in DOMAIN UpperToLower THEN UpperToLower[s[i]] ELSE s[i]]

includes(s, pat) ==
    \E i \in 1..(Len(s) - Len(pat) + 1) : SubSeq(s, i, i + Len(pat) - 1) = pat

ParseResponse == <<"p","a","r","s","e"," ","r","e","s","p","o","n","s","e">>

\* the error texts a provision_code call is answered with in the model
ErrParseLower == <<"p","a","r","s","e"," ","r","e","s","p","o","n","s","e"," ","e","r","r">>
ErrParseUpper == <<"P","A","R","S","E"," ","R","E","S","P","O","N","S","E">>
ErrTransport == <<"t","r","a","n","s","p","o","r","t"," ","e","r","r","o","r">>
ErrNoResponse == <<"r","e","s","p","o","n","s","e"," ","p","a","r","s","e">>
ProvisionErrors == {ErrParseLower, ErrParseUpper, ErrTransport, ErrNoResponse}

\* link-machine line 63: error.toLowerCase().includes('parse response')
IsParseError(error) == includes(toLowerCase(error), ParseResponse)

---------------------------------------------------------------------------
(* Helpers *)

Min(a, b) == IF a < b THEN a ELSE b

Goto(route) ==
    /\ lastGoto' = route
    /\ gotoCount' = Min(gotoCount + 1, MaxGotos)

NoGoto == UNCHANGED <<lastGoto, gotoCount>>

Pending(calls) ==
    LET RECURSIVE Sum(_)
        Sum(S) == IF S = {} THEN 0
                  ELSE LET c == CHOOSE x \in S : TRUE IN calls[c] + Sum(S \ {c})
    IN  Sum(DOMAIN calls)

Elapse(t) == IF t = Cancelled THEN Cancelled ELSE t - 1

---------------------------------------------------------------------------
(* Initial values *)

\* no goto yet, the store as created by writable({})
SharedInit ==
    /\ lastGoto = NoRoute
    /\ gotoCount = 0
    /\ machineInfo = EmptyStore

\* the link-machine component does not exist
LinkAbsent ==
    /\ provision_code = Placeholder
    /\ is_code_generated = FALSE
    /\ is_code_provision = FALSE
    /\ error_message = NoMessage
    /\ apiInProgress = FALSE
    /\ is_error = FALSE
    /\ timeout = TimeoutStart
    /\ generate_code_process = Cancelled
    /\ provision_code_process = Cancelled
    /\ update_timer = Cancelled
    /\ linkMounted = FALSE
    /\ generateCalls = 0
    /\ provisionCalls = [c \in AllCodes |-> 0]
    /\ pollGate = "open"
    /\ codeAge = Untracked
    /\ firstSubmitAge = NoSubmitYet
    /\ issuanceFailed = "untracked"

\* the start screen and the check-internet screen are not part of the run
HomeAbsent ==
    /\ homeScreen = NoRoute
    /\ homeNav = NoRoute
    /\ provisionStatusCalls = 0
    /\ homeMachineIdCalls = 0
    /\ toast = NoMessage
    /\ checks = << >>
    /\ notProvisionedSeen = FALSE
    /\ pingSucceeded = FALSE

\* the machine-info component does not exist
InfoAbsent ==
    /\ storeData = EmptyStore
    /\ machine_id = NoMachineId
    /\ machine_name = DefaultName
    /\ machine_icon = ""
    /\ is_active = FALSE
    /\ is_loading = FALSE
    /\ info_is_error = FALSE
    /\ info_error_message = NoMessage
    /\ healthInterval = Cancelled
    /\ metadataInterval = Cancelled
    /\ loadingTimeout = Cancelled
    /\ infoMounted = FALSE
    /\ latestPing = "none"
    /\ olderPings = 0
    /\ nameCalls = 0
    /\ iconCalls = [n \in MachineNames |-> 0]
    /\ iconFailed = FALSE

\* the configure-machine component does not exist
ResolveAbsent ==
    /\ get_machine_id_data = "absent"
    /\ machineIdResult = Undefined
    /\ checkTimeout = "absent"
    /\ checkTimeoutTimer = Cancelled
    /\ raceTimer = Cancelled
    /\ race = "unstarted"
    /\ resolveMounted = FALSE
    /\ resolveClock = 0
    /\ idSettledAt = -1
    /\ firstSettled = "none"

---------------------------------------------------------------------------
(* link-machine screen *)

\* clearIntervalProcess: the flag goes down and the three intervals are cleared
clearIntervalProcess ==
    /\ apiInProgress' = FALSE
    /\ generate_code_process' = Cancelled
    /\ provision_code_process' = Cancelled
    /\ update_timer' = Cancelled

\* The reactive block `$: if (is_code_provision) ... else if (is_error) ...`.
\* The handler has assigned icp, ie, em, api to is_code_provision, is_error,
\* error_message and apiInProgress, and timers to the three intervals; Svelte
\* runs the block when the component is alive and one of the three variables
\* the block reads has changed.
Reactive(icp, ie, em, api, timers) ==
    LET dirty == icp # is_code_provision \/ ie # is_error \/ em # error_message
        run == linkMounted /\ dirty
    IN  /\ is_code_provision' = icp
        /\ is_error' = ie
        /\ error_message' = em
        /\ IF run /\ icp
           THEN clearIntervalProcess /\ Goto(ConfigureMachineRoute)
           ELSE /\ apiInProgress' = api
                /\ generate_code_process' = timers[1]
                /\ provision_code_process' = timers[2]
                /\ update_timer' = timers[3]
                /\ IF run /\ ie THEN Goto(SetupFailedRoute) ELSE NoGoto

\* generate_code_req with the flag honoured instead of raised: a request made
\* while apiInProgress is down is dropped
generate_code_req_gated ==
    /\ timeout' = TimeoutStart
    /\ apiInProgress' = apiInProgress
    /\ generateCalls' = IF apiInProgress THEN generateCalls + 1 ELSE generateCalls

\* generate_code_req without its first statement: the countdown is left where
\* it stands
generate_code_req_keeps_countdown ==
    /\ timeout' = timeout
    /\ apiInProgress' = TRUE
    /\ generateCalls' = generateCalls + 1

\* generate_code_req up to its await: the countdown restarts, the flag is
\* raised (the second `if` is then always taken) and generate_code is called
generate_code_req ==
    /\ timeout' = TimeoutStart
    /\ apiInProgress' = TRUE
    /\ generateCalls' = generateCalls + 1

\* const generate_code_process = setInterval(..., 60000)
GenerateCodeProcessFire ==
    /\ UNCHANGED <<codeAge, firstSubmitAge, issuanceFailed>>
    /\ generate_code_process = 0
    /\ generateCalls < MaxPending
    /\ generate_code_req
    /\ generate_code_process' = RotationPeriod
    /\ UNCHANGED <<provision_code_process, update_timer>>
    /\ UNCHANGED <<provision_code, is_code_generated, is_code_provision, error_message,
                   is_error, linkMounted, provisionCalls, pollGate, sharedVars, notLinkVars>>

\* generate_code answers with a code (the `try` of generate_code_req)
GenerateCodeOk(code) ==
    /\ codeAge' = IF codeAge = NoCodeYet THEN 0 ELSE codeAge
    /\ UNCHANGED <<firstSubmitAge, issuanceFailed>>
    /\ generateCalls > 0
    /\ generateCalls' = generateCalls - 1
    /\ provision_code' = code
    /\ is_code_generated' = TRUE
    /\ pollGate' = "open"
    /\ UNCHANGED <<is_code_provision, error_message, apiInProgress, is_error, timeout,
                   linkTimers, linkMounted, provisionCalls, sharedVars, notLinkVars>>

\* generate_code fails (the `catch` of generate_code_req)
GenerateCodeFail ==
    /\ UNCHANGED <<codeAge, firstSubmitAge>>
    /\ issuanceFailed' = IF issuanceFailed = "none" THEN "failed" ELSE issuanceFailed
    /\ generateCalls > 0
    /\ generateCalls' = generateCalls - 1
    /\ Reactive(is_code_provision, TRUE, SomethingWentWrong, apiInProgress, linkTimers)
    /\ UNCHANGED <<provision_code, is_code_generated, timeout, linkMounted,
                   provisionCalls, pollGate, machineInfo, notLinkVars>>

\* the 20 s callback with the poll gated on apiInProgress as well
ProvisionCodeProcessFireGated ==
    /\ UNCHANGED <<codeAge, firstSubmitAge, issuanceFailed>>
    /\ provision_code_process = 0
    /\ generate_code_process # 0
    /\ IF is_code_generated /\ apiInProgress
       THEN /\ Pending(provisionCalls) < MaxPending
            /\ provisionCalls' =
                   [provisionCalls EXCEPT ![provision_code] = @ + 1]
            /\ pollGate' = IF pollGate = "suspended" THEN "breached" ELSE pollGate
       ELSE UNCHANGED <<provisionCalls, pollGate>>
    /\ provision_code_process' = PollPeriod
    /\ UNCHANGED <<generate_code_process, update_timer>>
    /\ UNCHANGED <<provision_code, is_code_generated, is_code_provision, error_message,
                   apiInProgress, is_error, timeout, linkMounted, generateCalls,
                   sharedVars, notLinkVars>>

\* the 20 s callback without its test of is_code_generated: every tick
\* submits whatever provision_code holds
ProvisionCodeProcessFireUnguarded ==
    /\ UNCHANGED <<codeAge, firstSubmitAge, issuanceFailed>>
    /\ provision_code_process = 0
    /\ generate_code_process # 0
    /\ Pending(provisionCalls) < MaxPending
    /\ provisionCalls' = [provisionCalls EXCEPT ![provision_code] = @ + 1]
    /\ pollGate' = IF pollGate = "suspended" THEN "breached" ELSE pollGate
    /\ provision_code_process' = PollPeriod
    /\ UNCHANGED <<generate_code_process, update_timer>>
    /\ UNCHANGED <<provision_code, is_code_generated, is_code_provision, error_message,
                   apiInProgress, is_error, timeout, linkMounted, generateCalls,
                   sharedVars, notLinkVars>>

\* const provision_code_process = setInterval(..., 20000), up to its await
ProvisionCodeProcessFire ==
    /\ firstSubmitAge' = IF is_code_generated /\ codeAge >= 0
                              /\ firstSubmitAge = NoSubmitYet
                         THEN codeAge ELSE firstSubmitAge
    /\ UNCHANGED <<codeAge, issuanceFailed>>
    /\ provision_code_process = 0
    /\ generate_code_process # 0
    /\ IF is_code_generated
       THEN /\ Pending(provisionCalls) < MaxPending
            /\ provisionCalls' =
                   [provisionCalls EXCEPT ![provision_code] = @ + 1]
            /\ pollGate' = IF pollGate = "suspended" THEN "breached" ELSE pollGate
       ELSE UNCHANGED <<provisionCalls, pollGate>>
    /\ provision_code_process' = PollPeriod
    /\ UNCHANGED <<generate_code_process, update_timer>>
    /\ UNCHANGED <<provision_code, is_code_generated, is_code_provision, error_message,
                   apiInProgress, is_error, timeout, linkMounted, generateCalls,
                   sharedVars, notLinkVars>>

\* provision_by_code(code) answers {success} (the `try` of the 20 s callback)
ProvisionCodeOk(code, success) ==
    /\ UNCHANGED <<codeAge, firstSubmitAge, issuanceFailed>>
    /\ provisionCalls[code] > 0
    /\ provisionCalls' = [provisionCalls EXCEPT ![code] = @ - 1]
    /\ Reactive(success,
                is_error,
                IF success THEN error_message ELSE IncorrectCode,
                success,
                linkTimers)
    /\ pollGate' = IF ~success /\ pollGate = "open" THEN "suspended" ELSE pollGate
    /\ UNCHANGED <<provision_code, is_code_generated, timeout, linkMounted,
                   generateCalls, machineInfo, notLinkVars>>

\* provision_by_code(code) fails with an error text (the `catch` of the callback)
ProvisionCodeFail(code, error) ==
    /\ UNCHANGED <<codeAge, firstSubmitAge, issuanceFailed>>
    /\ provisionCalls[code] > 0
    /\ provisionCalls' = [provisionCalls EXCEPT ![code] = @ - 1]
    /\ IF ~IsParseError(error)
       THEN Reactive(is_code_provision, TRUE, SomethingWentWrong, FALSE, linkTimers)
       ELSE Reactive(is_code_provision, is_error, error_message, FALSE, linkTimers)
    /\ UNCHANGED <<provision_code, is_code_generated, timeout, linkMounted,
                   generateCalls, pollGate, machineInfo, notLinkVars>>

\* const update_timer = setInterval(..., 1000)
UpdateTimerFire ==
    /\ UNCHANGED <<codeAge, firstSubmitAge, issuanceFailed>>
    /\ update_timer = 0
    /\ generate_code_process # 0
    /\ provision_code_process # 0
    /\ timeout' = IF is_code_generated
                  THEN (IF timeout <= 0 THEN TimeoutStart ELSE timeout) - 1
                  ELSE timeout
    /\ update_timer' = CountdownPeriod
    /\ UNCHANGED <<generate_code_process, provision_code_process>>
    /\ UNCHANGED <<provision_code, is_code_generated, is_code_provision, error_message,
                   apiInProgress, is_error, linkMounted, generateCalls, provisionCalls,
                   pollGate, sharedVars, notLinkVars>>

\* onDestroy: the screen is torn down (the navigation of a goto completes, or
\* the user goes back)
LinkDestroy ==
    /\ UNCHANGED <<codeAge, firstSubmitAge, issuanceFailed>>
    /\ linkMounted
    /\ linkMounted' = FALSE
    /\ clearIntervalProcess
    /\ UNCHANGED <<provision_code, is_code_generated, is_code_provision, error_message,
                   is_error, timeout, generateCalls, provisionCalls, pollGate,
                   sharedVars, notLinkVars>>

\* one second passes: no interval is due
LinkTick ==
    /\ codeAge' = IF codeAge >= 0 /\ codeAge < PollPeriod /\ firstSubmitAge = NoSubmitYet
                  THEN codeAge + 1 ELSE codeAge
    /\ UNCHANGED <<firstSubmitAge, issuanceFailed>>
    /\ \E t \in {generate_code_process, provision_code_process, update_timer} :
           t # Cancelled
    /\ generate_code_process # 0
    /\ provision_code_process # 0
    /\ update_timer # 0
    /\ generate_code_process' = Elapse(generate_code_process)
    /\ provision_code_process' = Elapse(provision_code_process)
    /\ update_timer' = Elapse(update_timer)
    /\ UNCHANGED <<provision_code, is_code_generated, is_code_provision, error_message,
                   apiInProgress, is_error, timeout, linkMounted, generateCalls,
                   provisionCalls, pollGate, sharedVars, notLinkVars>>

\* the component is constructed and onMount has called generate_code_req
LinkStart ==
    /\ provision_code = Placeholder
    /\ is_code_generated = FALSE
    /\ is_code_provision = FALSE
    /\ error_message = NoMessage
    /\ apiInProgress = TRUE
    /\ is_error = FALSE
    /\ timeout = TimeoutStart
    /\ generate_code_process = RotationPeriod
    /\ provision_code_process = PollPeriod
    /\ update_timer = CountdownPeriod
    /\ linkMounted = TRUE
    /\ generateCalls = 1
    /\ provisionCalls = [c \in AllCodes |-> 0]
    /\ pollGate = "open"

\* the history of the first poll is not recorded
FirstPollUntracked ==
    /\ codeAge = Untracked
    /\ firstSubmitAge = NoSubmitYet

\* the history of the first poll is recorded
FirstPollTracked ==
    /\ codeAge = NoCodeYet
    /\ firstSubmitAge = NoSubmitYet

\* failures of generate_code are not recorded
IssuanceUntracked == issuanceFailed = "untracked"

\* failures of generate_code are recorded
IssuanceTracked == issuanceFailed = "none"

LinkInit ==
    SharedInit /\ LinkStart /\ FirstPollUntracked /\ IssuanceUntracked /\ ResolveAbsent
        /\ HomeAbsent /\ InfoAbsent

FirstPollInit ==
    SharedInit /\ LinkStart /\ FirstPollTracked /\ IssuanceUntracked /\ ResolveAbsent
        /\ HomeAbsent /\ InfoAbsent

IssuanceInit ==
    SharedInit /\ LinkStart /\ FirstPollUntracked /\ IssuanceTracked /\ ResolveAbsent
        /\ HomeAbsent /\ InfoAbsent

LinkNext ==
    \/ LinkTick
    \/ GenerateCodeProcessFire
    \/ \E code \in AgentCodes : GenerateCodeOk(code)
    \/ GenerateCodeFail
    \/ ProvisionCodeProcessFire
    \/ \E code \in AllCodes, success \in BOOLEAN : ProvisionCodeOk(code, success)
    \/ \E code \in AllCodes, error \in ProvisionErrors : ProvisionCodeFail(code, error)
    \/ UpdateTimerFire
    \/ LinkDestroy

SpecLink == LinkInit /\ [][LinkNext]_vars

\* the pairing screen with the failures of generate_code recorded
SpecIssuance == IssuanceInit /\ [][LinkNext]_vars

\* the pairing screen up to its first submitCode call
FirstPollNext ==
    \/ firstSubmitAge = NoSubmitYet /\ LinkTick
    \/ firstSubmitAge = NoSubmitYet /\ GenerateCodeProcessFire
    \/ firstSubmitAge = NoSubmitYet /\ \E code \in AgentCodes : GenerateCodeOk(code)
    \/ firstSubmitAge = NoSubmitYet /\ GenerateCodeFail
    \/ firstSubmitAge = NoSubmitYet /\ ProvisionCodeProcessFire
    \/ firstSubmitAge = NoSubmitYet /\ UpdateTimerFire
    \/ firstSubmitAge = NoSubmitYet /\ LinkDestroy

SpecFirstPoll == FirstPollInit /\ [][FirstPollNext]_vars

---------------------------------------------------------------------------
(* configure-machine screen *)

\* .then of the race: goto('/setup-success')
RaceThen == Goto(SetupSuccessRoute)

\* .catch of the race without the 'Timeout' branch
RaceCatchGeneric(error) == Goto(SetupFailedRoute)

\* .catch of the race: the reason 'Timeout' goes to the timeout screen, every
\* other reason to the failure screen
RaceCatch(error) ==
    IF error = TimeoutReason THEN Goto(TimeoutServiceRoute) ELSE Goto(SetupFailedRoute)

\* history: the first of the two promises to settle
NoteSettled(who) ==
    firstSettled' = IF firstSettled = "none" THEN who ELSE firstSettled

\* get_machine_id answers and goes to the success screen itself, whatever
\* the race has done
MachineIdOkUnraced(id) ==
    /\ get_machine_id_data = "pending"
    /\ machineInfo' = [id |-> id, name |-> Undefined, icon |-> Undefined]
    /\ get_machine_id_data' = "fulfilled"
    /\ machineIdResult' = id
    /\ race' = "fulfilled"
    /\ Goto(SetupSuccessRoute)
    /\ idSettledAt' = resolveClock
    /\ firstSettled' = IF firstSettled = "none" THEN "machineId" ELSE firstSettled
    /\ UNCHANGED <<checkTimeout, checkTimeoutTimer, raceTimer, resolveMounted,
                   resolveClock, notResolveVars>>

\* get_machine_id answers: the store is set, the promise resolves, and a
\* pending race is won by it
MachineIdOk(id) ==
    /\ get_machine_id_data = "pending"
    /\ machineInfo' = [id |-> id, name |-> Undefined, icon |-> Undefined]
    /\ get_machine_id_data' = "fulfilled"
    /\ machineIdResult' = id
    /\ IF race = "pending"
       THEN race' = "fulfilled" /\ RaceThen
       ELSE UNCHANGED race /\ NoGoto
    /\ idSettledAt' = resolveClock
    /\ NoteSettled("machineId")
    /\ UNCHANGED <<checkTimeout, checkTimeoutTimer, raceTimer, resolveMounted,
                   resolveClock, notResolveVars>>

\* get_machine_id fails: the promise rejects with the error, and a pending
\* race is lost to it
MachineIdFail(error) ==
    /\ get_machine_id_data = "pending"
    /\ get_machine_id_data' = "rejected"
    /\ machineIdResult' = error
    /\ IF race = "pending"
       THEN race' = "rejected" /\ RaceCatch(error)
       ELSE UNCHANGED race /\ NoGoto
    /\ idSettledAt' = resolveClock
    /\ NoteSettled("machineId")
    /\ UNCHANGED <<machineInfo, checkTimeout, checkTimeoutTimer, raceTimer,
                   resolveMounted, resolveClock, notResolveVars>>

\* the deadline callback going to the timeout screen itself, whatever the
\* race has done
CheckTimeoutFireUnraced ==
    /\ checkTimeoutTimer = 0
    /\ checkTimeoutTimer' = Cancelled
    /\ checkTimeout' = "rejected"
    /\ race' = "rejected"
    /\ Goto(TimeoutServiceRoute)
    /\ firstSettled' = IF firstSettled = "none" THEN "deadline" ELSE firstSettled
    /\ UNCHANGED <<machineInfo, get_machine_id_data, machineIdResult, raceTimer,
                   resolveMounted, resolveClock, idSettledAt, notResolveVars>>

\* setTimeout(reject, 15000, 'Timeout') fires: checkTimeout rejects
CheckTimeoutFire ==
    /\ checkTimeoutTimer = 0
    /\ checkTimeoutTimer' = Cancelled
    /\ checkTimeout' = "rejected"
    /\ IF race = "pending"
       THEN race' = "rejected" /\ RaceCatch(TimeoutReason)
       ELSE UNCHANGED race /\ NoGoto
    /\ NoteSettled("deadline")
    /\ UNCHANGED <<machineInfo, get_machine_id_data, machineIdResult, raceTimer,
                   resolveMounted, resolveClock, idSettledAt, notResolveVars>>

\* the setTimeout(..., 3000) callback: Promise.race([get_machine_id_data,
\* checkTimeout]) settles with the first of the two, in this order, that has
\* already settled, and stays pending when neither has
RaceTimerFire ==
    /\ raceTimer = 0
    /\ checkTimeoutTimer # 0
    /\ raceTimer' = Cancelled
    /\ IF get_machine_id_data = "fulfilled"
       THEN race' = "fulfilled" /\ RaceThen
       ELSE IF get_machine_id_data = "rejected"
       THEN race' = "rejected" /\ RaceCatch(machineIdResult)
       ELSE IF checkTimeout = "rejected"
       THEN race' = "rejected" /\ RaceCatch(TimeoutReason)
       ELSE race' = "pending" /\ NoGoto
    /\ UNCHANGED <<machineInfo, get_machine_id_data, machineIdResult, checkTimeout,
                   checkTimeoutTimer, resolveMounted, resolveClock, idSettledAt,
                   firstSettled, notResolveVars>>

\* the navigation of the goto completes and the screen is replaced (the
\* component registers no onDestroy: nothing of it is cancelled)
ResolveLeave ==
    /\ resolveMounted
    /\ lastGoto # NoRoute
    /\ resolveMounted' = FALSE
    /\ UNCHANGED <<sharedVars, get_machine_id_data, machineIdResult, checkTimeout,
                   checkTimeoutTimer, raceTimer, race, resolveClock, idSettledAt,
                   firstSettled, notResolveVars>>

\* one second passes: no timeout is due
ResolveTick ==
    /\ \E t \in {checkTimeoutTimer, raceTimer} : t # Cancelled
    /\ checkTimeoutTimer # 0
    /\ raceTimer # 0
    /\ checkTimeoutTimer' = Elapse(checkTimeoutTimer)
    /\ raceTimer' = Elapse(raceTimer)
    /\ resolveClock' = resolveClock + 1
    /\ UNCHANGED <<sharedVars, get_machine_id_data, machineIdResult, checkTimeout,
                   race, resolveMounted, idSettledAt, firstSettled, notResolveVars>>

\* the component with the deadline counted from the end of the initial delay
ResolveStartDeadlineAfterDelay ==
    /\ get_machine_id_data = "pending"
    /\ machineIdResult = Undefined
    /\ checkTimeout = "pending"
    /\ checkTimeoutTimer = InitialDelay + IdentityDeadline
    /\ raceTimer = InitialDelay
    /\ race = "unstarted"
    /\ resolveMounted = TRUE
    /\ resolveClock = 0
    /\ idSettledAt = -1
    /\ firstSettled = "none"

\* the component is constructed: get_machine_id is called, both timeouts are set
ResolveStart ==
    /\ get_machine_id_data = "pending"
    /\ machineIdResult = Undefined
    /\ checkTimeout = "pending"
    /\ checkTimeoutTimer = IdentityDeadline
    /\ raceTimer = InitialDelay
    /\ race = "unstarted"
    /\ resolveMounted = TRUE
    /\ resolveClock = 0
    /\ idSettledAt = -1
    /\ firstSettled = "none"

ResolveInit == SharedInit /\ LinkAbsent /\ ResolveStart /\ HomeAbsent /\ InfoAbsent

ResolveNext ==
    \/ ResolveTick
    \/ \E id \in MachineIds : MachineIdOk(id)
    \/ \E error \in MachineIdErrors : MachineIdFail(error)
    \/ CheckTimeoutFire
    \/ RaceTimerFire
    \/ ResolveLeave

SpecResolve == ResolveInit /\ [][ResolveNext]_vars

---------------------------------------------------------------------------
(* start screen (routes/+page.svelte) and check-internet screen *)

\* goto(route) followed by its navigation, which completes later
HomeGoto(route) ==
    /\ Goto(route)
    /\ homeNav' = route

\* a check-internet component as constructed: the flag up, the timeout set
NewCheck == [apiInProgress |-> TRUE, timer |-> CheckDelay, ping |-> "none"]

\* onDestroy of check-internet: the flag of the component on screen goes down
DestroyShown ==
    IF homeScreen = CheckInternetRoute
    THEN [checks EXCEPT ![Len(checks)].apiInProgress = FALSE]
    ELSE checks

\* the next button: goNext up to its first await
goNext ==
    /\ homeScreen = HomeRoute
    /\ provisionStatusCalls < MaxPending
    /\ provisionStatusCalls' = provisionStatusCalls + 1
    /\ UNCHANGED <<sharedVars, homeScreen, homeNav, homeMachineIdCalls, toast, checks,
                   notProvisionedSeen, pingSucceeded, notHomeVars>>

\* goNext with the connectivity check left out: a machine that is not
\* provisioned goes to the pairing screen at once
ProvisionStatusOkUnchecked(status) ==
    /\ provisionStatusCalls > 0
    /\ provisionStatusCalls' = provisionStatusCalls - 1
    /\ IF status
       THEN /\ homeMachineIdCalls < MaxPending
            /\ homeMachineIdCalls' = homeMachineIdCalls + 1
            /\ UNCHANGED <<lastGoto, gotoCount, homeNav, notProvisionedSeen>>
       ELSE /\ HomeGoto(LinkMachineRoute)
            /\ notProvisionedSeen' = TRUE
            /\ UNCHANGED homeMachineIdCalls
    /\ UNCHANGED <<machineInfo, homeScreen, toast, checks, pingSucceeded, notHomeVars>>

\* check_machine_provision_status answers {status}: a provisioned machine has
\* its id fetched, any other goes to check-internet
ProvisionStatusOk(status) ==
    /\ provisionStatusCalls > 0
    /\ provisionStatusCalls' = provisionStatusCalls - 1
    /\ IF status
       THEN /\ homeMachineIdCalls < MaxPending
            /\ homeMachineIdCalls' = homeMachineIdCalls + 1
            /\ UNCHANGED <<lastGoto, gotoCount, homeNav, notProvisionedSeen>>
       ELSE /\ HomeGoto(CheckInternetRoute)
            /\ notProvisionedSeen' = TRUE
            /\ UNCHANGED homeMachineIdCalls
    /\ UNCHANGED <<machineInfo, homeScreen, toast, checks, pingSucceeded, notHomeVars>>

\* check_machine_provision_status fails: a toast with the error, nothing else
ProvisionStatusFail(error) ==
    /\ provisionStatusCalls > 0
    /\ provisionStatusCalls' = provisionStatusCalls - 1
    /\ toast' = error
    /\ UNCHANGED <<sharedVars, homeScreen, homeNav, homeMachineIdCalls, checks,
                   notProvisionedSeen, pingSucceeded, notHomeVars>>

\* goNext reading a field the answer does not have (data.id for data.machine_id)
HomeMachineIdOkWrongField(id) ==
    /\ homeMachineIdCalls > 0
    /\ homeMachineIdCalls' = homeMachineIdCalls - 1
    /\ machineInfo' = [id |-> Undefined, name |-> Undefined, icon |-> Undefined]
    /\ HomeGoto(MachineInfoRoute)
    /\ UNCHANGED <<homeScreen, provisionStatusCalls, toast, checks, notProvisionedSeen,
                   pingSucceeded, notHomeVars>>

\* get_machine_id of goNext answers: the store is set and machine-info requested
HomeMachineIdOk(id) ==
    /\ homeMachineIdCalls > 0
    /\ homeMachineIdCalls' = homeMachineIdCalls - 1
    /\ machineInfo' = [id |-> id, name |-> Undefined, icon |-> Undefined]
    /\ HomeGoto(MachineInfoRoute)
    /\ UNCHANGED <<homeScreen, provisionStatusCalls, toast, checks, notProvisionedSeen,
                   pingSucceeded, notHomeVars>>

\* get_machine_id of goNext fails: a toast, nothing else
HomeMachineIdFail ==
    /\ homeMachineIdCalls > 0
    /\ homeMachineIdCalls' = homeMachineIdCalls - 1
    /\ toast' = AgentNotRunning
    /\ UNCHANGED <<sharedVars, homeScreen, homeNav, provisionStatusCalls, checks,
                   notProvisionedSeen, pingSucceeded, notHomeVars>>

\* the navigation of the latest goto completes: the component on screen is
\* destroyed and the one of the route is constructed (none of the two when
\* the route is the one on screen already)
Navigate ==
    /\ homeNav # NoRoute
    /\ homeNav' = NoRoute
    /\ homeScreen' = homeNav
    /\ IF homeNav = homeScreen
       THEN UNCHANGED checks
       ELSE IF homeNav = CheckInternetRoute
       THEN /\ Len(checks) < MaxVisits
            /\ checks' = Append(DestroyShown, NewCheck)
       ELSE checks' = DestroyShown
    /\ UNCHANGED <<sharedVars, provisionStatusCalls, homeMachineIdCalls, toast,
                   notProvisionedSeen, pingSucceeded, notHomeVars>>

\* the back button of check-internet: history.back() returns to the start
\* screen and the component is destroyed
CheckGoBack ==
    /\ homeScreen = CheckInternetRoute
    /\ homeScreen' = HomeRoute
    /\ checks' = DestroyShown
    /\ UNCHANGED <<sharedVars, homeNav, provisionStatusCalls, homeMachineIdCalls, toast,
                   notProvisionedSeen, pingSucceeded, notHomeVars>>

\* the setTimeout(..., 2000) callback of check-internet up to its await:
\* check_ping_status is called when the flag is still up
CheckTimerFire(i) ==
    /\ checks[i].timer = 0
    /\ \A j \in 1..(i - 1) : checks[j].timer # 0
    /\ checks' = [checks EXCEPT ![i].timer = Cancelled,
                                ![i].ping = IF checks[i].apiInProgress
                                            THEN "outstanding" ELSE "none"]
    /\ UNCHANGED <<sharedVars, homeScreen, homeNav, provisionStatusCalls,
                   homeMachineIdCalls, toast, notProvisionedSeen, pingSucceeded,
                   notHomeVars>>

\* check_ping_status answers {code}: link-machine on 'success', no-internet otherwise
PingOk(i, code) ==
    /\ checks[i].ping = "outstanding"
    /\ checks' = [checks EXCEPT ![i].ping = "answered", ![i].apiInProgress = FALSE]
    /\ IF code = "success" THEN HomeGoto(LinkMachineRoute) ELSE HomeGoto(NoInternetRoute)
    /\ pingSucceeded' = (pingSucceeded \/ code = "success")
    /\ UNCHANGED <<machineInfo, homeScreen, provisionStatusCalls, homeMachineIdCalls,
                   toast, notProvisionedSeen, notHomeVars>>

\* the catch of check-internet routing like a non-success code: no-internet
PingFailNoInternet(i) ==
    /\ checks[i].ping = "outstanding"
    /\ checks' = [checks EXCEPT ![i].ping = "answered", ![i].apiInProgress = FALSE]
    /\ HomeGoto(NoInternetRoute)
    /\ UNCHANGED <<machineInfo, homeScreen, provisionStatusCalls, homeMachineIdCalls,
                   toast, notProvisionedSeen, pingSucceeded, notHomeVars>>

\* check_ping_status fails: setup-failed
PingFail(i) ==
    /\ checks[i].ping = "outstanding"
    /\ checks' = [checks EXCEPT ![i].ping = "answered", ![i].apiInProgress = FALSE]
    /\ HomeGoto(SetupFailedRoute)
    /\ UNCHANGED <<machineInfo, homeScreen, provisionStatusCalls, homeMachineIdCalls,
                   toast, notProvisionedSeen, pingSucceeded, notHomeVars>>

\* one second passes: no timeout is due
HomeTick ==
    /\ \E i \in DOMAIN checks : checks[i].timer # Cancelled
    /\ \A i \in DOMAIN checks : checks[i].timer # 0
    /\ checks' = [i \in DOMAIN checks |->
                     [checks[i] EXCEPT !.timer = Elapse(checks[i].timer)]]
    /\ UNCHANGED <<sharedVars, homeScreen, homeNav, provisionStatusCalls,
                   homeMachineIdCalls, toast, notProvisionedSeen, pingSucceeded,
                   notHomeVars>>

\* the application starts on the start screen
HomeStart ==
    /\ homeScreen = HomeRoute
    /\ homeNav = NoRoute
    /\ provisionStatusCalls = 0
    /\ homeMachineIdCalls = 0
    /\ toast = NoMessage
    /\ checks = << >>
    /\ notProvisionedSeen = FALSE
    /\ pingSucceeded = FALSE

HomeInit == SharedInit /\ LinkAbsent /\ ResolveAbsent /\ HomeStart /\ InfoAbsent

HomeNext ==
    \/ goNext
    \/ \E status \in BOOLEAN : ProvisionStatusOk(status)
    \/ \E error \in AgentErrors : ProvisionStatusFail(error)
    \/ \E id \in MachineIds : HomeMachineIdOk(id)
    \/ HomeMachineIdFail
    \/ Navigate
    \/ CheckGoBack
    \/ \E i \in DOMAIN checks : CheckTimerFire(i)
    \/ \E i \in DOMAIN checks, code \in PingCodes : PingOk(i, code)
    \/ \E i \in DOMAIN checks : PingFail(i)
    \/ HomeTick

SpecHome == HomeInit /\ [][HomeNext]_vars

\* what runs without the user and without the agent: a timeout that is due
\* fires, time passes, a requested navigation completes. Presses of a button
\* and answers of the agent may never come
CheckTimersFire == \E i \in DOMAIN checks : CheckTimerFire(i)

HomeFairness ==
    /\ WF_vars(Navigate)
    /\ WF_vars(CheckTimersFire)
    /\ WF_vars(HomeTick)

SpecHomeFair == SpecHome /\ HomeFairness

---------------------------------------------------------------------------
(* machine-info screen (routes/machine-info/+page.svelte), in milliseconds *)

\* check_ping_status calls that have not answered
PingsOutstanding == olderPings + (IF latestPing = "outstanding" THEN 1 ELSE 0)

\* get_machine_info calls that have not answered
InfoCallsOutstanding == nameCalls + Pending(iconCalls)

\* the reactive block setting the two fields alone, without the snapshot
StoreAfterNoSnapshot(name, icon) ==
    IF infoMounted /\ (name # machine_name \/ icon # machine_icon)
                   /\ (name # "" \/ icon # "")
    THEN [id |-> Undefined, name |-> name, icon |-> icon]
    ELSE machineInfo

\* the reactive block on machine_name and machine_icon: the store is set from
\* the snapshot storeData and the two fields. It runs in a live component
\* after a handler that changed one of the two, when one of them is not empty
StoreAfter(name, icon) ==
    IF infoMounted /\ (name # machine_name \/ icon # machine_icon)
                   /\ (name # "" \/ icon # "")
    THEN [id |-> storeData.id, name |-> name, icon |-> icon]
    ELSE machineInfo

\* check_active_status after its await: is_active follows the status code
CheckActiveOk(code) ==
    /\ is_active' = (code = "success")
    /\ UNCHANGED <<sharedVars, storeData, machine_id, machine_name, machine_icon,
                   is_loading, info_is_error, info_error_message>>

\* the catch of check_active_status leaving for the failure screen, as the
\* catch blocks of the other screens do
CheckActiveCatchLeaving ==
    /\ is_active' = FALSE
    /\ info_is_error' = TRUE
    /\ info_error_message' = AgentNotReachable
    /\ is_loading' = IF infoMounted /\ ~info_is_error THEN FALSE ELSE is_loading
    /\ Goto(SetupFailedRoute)
    /\ UNCHANGED <<machineInfo, storeData, machine_id, machine_name, machine_icon>>

\* the catch of check_active_status without the reactive block on is_error:
\* the loading dialog stays as it is
CheckActiveCatchKeepsLoading ==
    /\ is_active' = FALSE
    /\ info_is_error' = TRUE
    /\ info_error_message' = AgentNotReachable
    /\ is_loading' = is_loading
    /\ UNCHANGED <<sharedVars, storeData, machine_id, machine_name, machine_icon>>

\* the catch of check_active_status, and the reactive block on is_error,
\* which closes the loading dialog in a live component
CheckActiveCatch ==
    /\ is_active' = FALSE
    /\ info_is_error' = TRUE
    /\ info_error_message' = AgentNotReachable
    /\ is_loading' = IF infoMounted /\ ~info_is_error THEN FALSE ELSE is_loading
    /\ UNCHANGED <<sharedVars, storeData, machine_id, machine_name, machine_icon>>

\* the setInterval(..., 10000) callback: check_active_status up to its await
HealthIntervalFire ==
    /\ UNCHANGED iconFailed
    /\ healthInterval = 0
    /\ PingsOutstanding < MaxPending
    /\ healthInterval' = HealthPeriod
    /\ olderPings' = PingsOutstanding
    /\ latestPing' = "outstanding"
    /\ UNCHANGED <<sharedVars, storeData, machine_id, machine_name, machine_icon,
                   is_active, is_loading, info_is_error, info_error_message,
                   metadataInterval, loadingTimeout, infoMounted, nameCalls, iconCalls,
                   notInfoVars>>

\* the check_ping_status call started last answers {code}
LatestPingOk(code) ==
    /\ UNCHANGED iconFailed
    /\ latestPing = "outstanding"
    /\ latestPing' = code
    /\ CheckActiveOk(code)
    /\ UNCHANGED <<healthInterval, metadataInterval, loadingTimeout, infoMounted,
                   olderPings, nameCalls, iconCalls, notInfoVars>>

\* the check_ping_status call started last fails
LatestPingFail ==
    /\ UNCHANGED iconFailed
    /\ latestPing = "outstanding"
    /\ latestPing' = "error"
    /\ CheckActiveCatch
    /\ UNCHANGED <<healthInterval, metadataInterval, loadingTimeout, infoMounted,
                   olderPings, nameCalls, iconCalls, notInfoVars>>

\* a check_ping_status call started before the last one answers {code}
OlderPingOk(code) ==
    /\ UNCHANGED iconFailed
    /\ olderPings > 0
    /\ olderPings' = olderPings - 1
    /\ CheckActiveOk(code)
    /\ UNCHANGED <<healthInterval, metadataInterval, loadingTimeout, infoMounted,
                   latestPing, nameCalls, iconCalls, notInfoVars>>

\* a check_ping_status call started before the last one fails
OlderPingFail ==
    /\ UNCHANGED iconFailed
    /\ olderPings > 0
    /\ olderPings' = olderPings - 1
    /\ CheckActiveCatch
    /\ UNCHANGED <<healthInterval, metadataInterval, loadingTimeout, infoMounted,
                   latestPing, nameCalls, iconCalls, notInfoVars>>

\* the setInterval(..., 1200) callback: get_machine_data up to the first
\* await of get_machine_info, the invoke for the machine name
MetadataIntervalFire ==
    /\ UNCHANGED iconFailed
    /\ metadataInterval = 0
    /\ InfoCallsOutstanding < MaxRefreshes
    /\ metadataInterval' = MetadataPeriod
    /\ nameCalls' = nameCalls + 1
    /\ UNCHANGED <<sharedVars, storeData, machine_id, machine_name, machine_icon,
                   is_active, is_loading, info_is_error, info_error_message,
                   healthInterval, loadingTimeout, infoMounted, latestPing, olderPings,
                   iconCalls, notInfoVars>>

\* get_machine_info handing the name over as soon as it has it
MachineNameOkEager(name) ==
    /\ UNCHANGED iconFailed
    /\ nameCalls > 0
    /\ nameCalls' = nameCalls - 1
    /\ iconCalls' = [iconCalls EXCEPT ![name] = @ + 1]
    /\ machine_name' = (IF name # "" THEN name ELSE DefaultName)
    /\ machineInfo' = StoreAfter(IF name # "" THEN name ELSE DefaultName, machine_icon)
    /\ UNCHANGED <<lastGoto, gotoCount, storeData, machine_id, machine_icon,
                   is_active, is_loading, info_is_error, info_error_message,
                   healthInterval, metadataInterval, loadingTimeout, infoMounted,
                   latestPing, olderPings, notInfoVars>>

\* the invoke for the machine name answers: the invoke for the icon follows
MachineNameOk(name) ==
    /\ UNCHANGED iconFailed
    /\ nameCalls > 0
    /\ nameCalls' = nameCalls - 1
    /\ iconCalls' = [iconCalls EXCEPT ![name] = @ + 1]
    /\ UNCHANGED <<sharedVars, storeData, machine_id, machine_name, machine_icon,
                   is_active, is_loading, info_is_error, info_error_message,
                   healthInterval, metadataInterval, loadingTimeout, infoMounted,
                   latestPing, olderPings, notInfoVars>>

\* the invoke for the machine name fails: get_machine_info throws and the
\* catch of get_machine_data logs
MachineNameFail ==
    /\ UNCHANGED iconFailed
    /\ nameCalls > 0
    /\ nameCalls' = nameCalls - 1
    /\ UNCHANGED <<sharedVars, storeData, machine_id, machine_name, machine_icon,
                   is_active, is_loading, info_is_error, info_error_message,
                   healthInterval, metadataInterval, loadingTimeout, infoMounted,
                   latestPing, olderPings, iconCalls, notInfoVars>>

\* the invoke for the icon answers: get_machine_info returns {name, icon},
\* get_machine_data assigns its three variables (the answer has no id) and
\* the reactive block sets the store
MachineIconOk(name, icon) ==
    /\ UNCHANGED iconFailed
    /\ iconCalls[name] > 0
    /\ iconCalls' = [iconCalls EXCEPT ![name] = @ - 1]
    /\ machine_id' = Undefined
    /\ machine_name' = (IF name # "" THEN name ELSE DefaultName)
    /\ machine_icon' = icon
    /\ machineInfo' = StoreAfter(IF name # "" THEN name ELSE DefaultName, icon)
    /\ UNCHANGED <<lastGoto, gotoCount, storeData, is_active, is_loading, info_is_error,
                   info_error_message, healthInterval, metadataInterval, loadingTimeout,
                   infoMounted, latestPing, olderPings, nameCalls, notInfoVars>>

\* the invoke for the icon fails: get_machine_info throws and the name it
\* got is dropped
MachineIconFail(name) ==
    /\ iconFailed' = TRUE
    /\ iconCalls[name] > 0
    /\ iconCalls' = [iconCalls EXCEPT ![name] = @ - 1]
    /\ UNCHANGED <<sharedVars, storeData, machine_id, machine_name, machine_icon,
                   is_active, is_loading, info_is_error, info_error_message,
                   healthInterval, metadataInterval, loadingTimeout, infoMounted,
                   latestPing, olderPings, nameCalls, notInfoVars>>

\* the setTimeout(..., 3000) of onMount: the loading dialog closes
LoadingTimeoutFire ==
    /\ UNCHANGED iconFailed
    /\ loadingTimeout = 0
    /\ healthInterval # 0
    /\ metadataInterval # 0
    /\ loadingTimeout' = Cancelled
    /\ is_loading' = FALSE
    /\ UNCHANGED <<sharedVars, storeData, machine_id, machine_name, machine_icon,
                   is_active, info_is_error, info_error_message, healthInterval,
                   metadataInterval, infoMounted, latestPing, olderPings, nameCalls,
                   iconCalls, notInfoVars>>

\* the loading dialog is closed by hand (its button, or bind:open)
CloseLoading ==
    /\ UNCHANGED iconFailed
    /\ infoMounted
    /\ is_loading
    /\ is_loading' = FALSE
    /\ UNCHANGED <<sharedVars, storeData, machine_id, machine_name, machine_icon,
                   is_active, info_is_error, info_error_message, healthInterval,
                   metadataInterval, loadingTimeout, infoMounted, latestPing, olderPings,
                   nameCalls, iconCalls, notInfoVars>>

\* the error dialog is closed by hand (bind:open={is_error})
CloseError ==
    /\ UNCHANGED iconFailed
    /\ infoMounted
    /\ info_is_error
    /\ info_is_error' = FALSE
    /\ UNCHANGED <<sharedVars, storeData, machine_id, machine_name, machine_icon,
                   is_active, is_loading, info_error_message, healthInterval,
                   metadataInterval, loadingTimeout, infoMounted, latestPing, olderPings,
                   nameCalls, iconCalls, notInfoVars>>

\* the component is destroyed by a navigation: it registers no onDestroy and
\* clears none of its timers
InfoDestroy ==
    /\ UNCHANGED iconFailed
    /\ infoMounted
    /\ infoMounted' = FALSE
    /\ UNCHANGED <<sharedVars, storeData, machine_id, machine_name, machine_icon,
                   is_active, is_loading, info_is_error, info_error_message,
                   healthInterval, metadataInterval, loadingTimeout, latestPing,
                   olderPings, nameCalls, iconCalls, notInfoVars>>

InfoElapse(t, d) == IF t = Cancelled THEN Cancelled ELSE t - d

\* time passes up to the next timer that comes due
InfoTick ==
    LET scheduled == {t \in {healthInterval, metadataInterval, loadingTimeout} :
                         t # Cancelled}
        d == CHOOSE t \in scheduled : \A u \in scheduled : t <= u
    IN  /\ scheduled # {}
        /\ 0 \notin scheduled
        /\ healthInterval' = InfoElapse(healthInterval, d)
        /\ metadataInterval' = InfoElapse(metadataInterval, d)
        /\ loadingTimeout' = InfoElapse(loadingTimeout, d)
        /\ UNCHANGED <<iconFailed, sharedVars, storeData, machine_id, machine_name, machine_icon,
                       is_active, is_loading, info_is_error, info_error_message,
                       infoMounted, latestPing, olderPings, nameCalls, iconCalls,
                       notInfoVars>>

\* the component after construction, the first run of the reactive blocks
\* and onMount: the store holds the id that brought the flow here, the two
\* intervals and the timeout are set, check_active_status and
\* get_machine_data have been called once
InfoStart ==
    /\ lastGoto = MachineInfoRoute
    /\ gotoCount = 1
    /\ \E id \in MachineIds :
           /\ storeData = [id |-> id, name |-> Undefined, icon |-> Undefined]
           /\ machineInfo = [id |-> id, name |-> DefaultName, icon |-> ""]
    /\ machine_id = NoMachineId
    /\ machine_name = DefaultName
    /\ machine_icon = ""
    /\ is_active = FALSE
    /\ is_loading = TRUE
    /\ info_is_error = FALSE
    /\ info_error_message = NoMessage
    /\ healthInterval = HealthPeriod
    /\ metadataInterval = MetadataPeriod
    /\ loadingTimeout = LoadingDelay
    /\ infoMounted = TRUE
    /\ latestPing = "outstanding"
    /\ olderPings = 0
    /\ nameCalls = 1
    /\ iconCalls = [n \in MachineNames |-> 0]
    /\ iconFailed = FALSE

InfoInit == InfoStart /\ LinkAbsent /\ ResolveAbsent /\ HomeAbsent

InfoNext ==
    \/ HealthIntervalFire
    \/ \E code \in PingCodes : LatestPingOk(code)
    \/ LatestPingFail
    \/ \E code \in PingCodes : OlderPingOk(code)
    \/ OlderPingFail
    \/ MetadataIntervalFire
    \/ \E name \in MachineNames : MachineNameOk(name)
    \/ MachineNameFail
    \/ \E name \in MachineNames, icon \in IconUrls : MachineIconOk(name, icon)
    \/ \E name \in MachineNames : MachineIconFail(name)
    \/ LoadingTimeoutFire
    \/ CloseLoading
    \/ CloseError
    \/ InfoDestroy
    \/ InfoTick

SpecInfo == InfoInit /\ [][InfoNext]_vars

---------------------------------------------------------------------------
(* Claims about the link-machine screen, checked under SpecLink *)

\* C1: on the pairing screen there is never more than one submitCode
\* (provision_by_code) call outstanding: a poll tick that fires while the
\* previous call has not answered starts no new call.
C1_SinglePollInFlight == Pending(provisionCalls) <= 1

\* C2: once a submitCode call has returned success=true (is_code_provision),
\* no generateCode call is started and the pairing code never changes again,
\* also not through a generateCode call that was outstanding at that moment.
C2_NoRotationAfterConfirmation ==
    [][is_code_provision =>
           (provision_code' = provision_code /\ generateCalls' <= generateCalls)]_vars

\* C7 as stated: after a submitCode call returned success=false, no submitCode
\* call is started until a rotation has issued a new code.
C7_PollingSuspendedAfterInvalid == pollGate # "breached"

\* C7 amended: a success=false answer suspends nothing. It leaves the 20 s poll
\* and the 60 s rotation scheduled as they were and is_code_generated set, and
\* a poll tick that fires before any new code has been issued starts a
\* submitCode call with the code on display.
C7_PollingContinuesAfterInvalid ==
    [][ /\ (\E code \in AllCodes : ProvisionCodeOk(code, FALSE)) =>
               /\ generate_code_process' = generate_code_process
               /\ provision_code_process' = provision_code_process
               /\ is_code_generated'
        /\ (ProvisionCodeProcessFire /\ pollGate # "open") =>
               provisionCalls' = [provisionCalls EXCEPT ![provision_code] = @ + 1]
      ]_vars

\* a poll has started a submitCode call after a success=false answer, before
\* any new code was issued, and the rotation is still scheduled
C7_Witness ==
    /\ pollGate = "breached"
    /\ linkMounted
    /\ ~apiInProgress
    /\ generate_code_process > 0
    /\ Pending(provisionCalls) > 0

\* C8: while the pairing screen is up, a submitCode error whose text does not
\* indicate a response-parsing failure moves the flow to the failure screen;
\* one whose text does requests no transition and leaves the poll scheduled.
C8_ErrorRouting ==
    [][\A code \in AllCodes, error \in ProvisionErrors :
           (linkMounted /\ ProvisionCodeFail(code, error)) =>
               IF IsParseError(error)
               THEN /\ lastGoto' = lastGoto
                    /\ gotoCount' = gotoCount
                    /\ provision_code_process' = provision_code_process
               ELSE lastGoto' = SetupFailedRoute
      ]_vars

\* C9: a success=false answer on a screen that is neither confirmed nor failed
\* requests no transition, raises no error and leaves the rotation scheduled;
\* and every time the 60 s interval comes due a generateCode call is started.
C9_InvalidCodeKeepsPairing ==
    [][ /\ ( /\ \E code \in AllCodes : ProvisionCodeOk(code, FALSE)
             /\ ~is_code_provision
             /\ ~is_error ) =>
               /\ lastGoto' = lastGoto
               /\ gotoCount' = gotoCount
               /\ ~is_error'
               /\ ~is_code_provision'
               /\ error_message' = IncorrectCode
               /\ generate_code_process' = generate_code_process
        /\ (generate_code_process = 0 /\ generate_code_process' = RotationPeriod) =>
               generateCalls' = generateCalls + 1
      ]_vars

\* submitCode answered success=false, the flow is still on the pairing screen
\* and a rotation call has been started after the first code was issued
C9_Witness ==
    /\ error_message = IncorrectCode
    /\ is_code_generated
    /\ generateCalls > 0
    /\ lastGoto = NoRoute
    /\ linkMounted

\* C19: on every exit from the pairing screen (a goto after confirmation
\* or failure, or the teardown) the three intervals are cancelled together:
\* from then on none of their callbacks runs and no generateCode or
\* submitCode call is started.
C19_TimersCancelledOnEveryExit ==
    [][(lastGoto # NoRoute \/ ~linkMounted) =>
           /\ ~GenerateCodeProcessFire
           /\ ~ProvisionCodeProcessFire
           /\ ~UpdateTimerFire
           /\ generateCalls' <= generateCalls
           /\ Pending(provisionCalls') <= Pending(provisionCalls)
      ]_vars

C23_FailedIsTerminal ==
    [][lastGoto = SetupFailedRoute =>
           (lastGoto' = lastGoto /\ gotoCount' = gotoCount)]_vars

\* C25: no submitCode call is started before a generateCode call has
\* succeeded, and the code a call carries is never the placeholder
\* provision_code holds before the first issuance: it is the code on display,
\* one the agent issued.
C25_NoSubmitOfPlaceholder ==
    /\ provisionCalls[Placeholder] = 0
    /\ Pending(provisionCalls) > 0 => is_code_generated
    /\ is_code_generated => provision_code \in AgentCodes

\* a poll tick has started a submitCode call, and it carries the issued code
\* on display
C25_Witness ==
    /\ is_code_generated
    /\ provisionCalls[provision_code] > 0
    /\ provision_code # Placeholder
    /\ linkMounted

---------------------------------------------------------------------------
(* Claim about failed issuance on the pairing screen, checked under SpecIssuance *)

\* C21: a failing generateCode call surfaces the failure (is_error and its
\* message), and from then on no submitCode call is started, also when the
\* failing call was a rotation after an earlier successful issuance.
C21_NoSubmitAfterIssuanceFailure ==
    [][ /\ GenerateCodeFail =>
               (is_error' /\ error_message' = SomethingWentWrong)
        /\ issuanceFailed = "failed" =>
               \A code \in AllCodes : provisionCalls'[code] <= provisionCalls[code]
      ]_vars

---------------------------------------------------------------------------
(* Claim about the first poll of the pairing screen, checked under SpecFirstPoll *)

\* C17: the first submitCode call starts no sooner than one poll period
\* (20 seconds) after the first code was issued, whatever the latency of the
\* generateCode answer.
C17_FirstPollAfterPollPeriod ==
    firstSubmitAge # NoSubmitYet => firstSubmitAge >= PollPeriod

---------------------------------------------------------------------------
(* Claims about the configure-machine screen, checked under SpecResolve *)

RaceSettled == race \in {"fulfilled", "rejected"}

\* C3: an entry into the identity-resolution screen makes exactly one goto,
\* to exactly one of setup-success, timeout-service and setup-failed: none
\* before the race settles, one from then on, and the race has settled at
\* the latest when the deadline fires.
C3_ExactlyOneOutcome ==
    /\ gotoCount = IF RaceSettled THEN 1 ELSE 0
    /\ race = "fulfilled" => lastGoto = SetupSuccessRoute
    /\ race = "rejected" => lastGoto \in {TimeoutServiceRoute, SetupFailedRoute}
    /\ ~RaceSettled => lastGoto = NoRoute
    /\ checkTimeout = "rejected" => RaceSettled

\* both the machineId answer and the deadline have happened, in either order
C3_Witness ==
    /\ get_machine_id_data = "fulfilled"
    /\ checkTimeout = "rejected"
    /\ firstSettled = "deadline"
    /\ gotoCount = 1

\* C4: when the machineId call settles (success or failure) before the
\* deadline, the deadline timer is cancelled and never fires afterwards.
C4_DeadlineNeverFiresAfterSettle ==
    firstSettled = "machineId" => checkTimeout = "pending"

\* C5: when the machineId call has neither succeeded nor failed 15 seconds
\* after the screen was entered, the flow goes to timeout-service, and stays
\* there whatever machineId answers later.
C5_TimeoutRoutesToTimedOut ==
    /\ firstSettled = "deadline" =>
           (lastGoto = TimeoutServiceRoute /\ resolveClock = IdentityDeadline)
    /\ (get_machine_id_data = "pending" /\ resolveClock < IdentityDeadline) =>
           lastGoto = NoRoute

\* the deadline passed first and machineId failed afterwards
C5_Witness ==
    /\ firstSettled = "deadline"
    /\ get_machine_id_data = "rejected"
    /\ lastGoto = TimeoutServiceRoute

\* C6: when the machineId call fails before the deadline, the outcome is
\* setup-failed as soon as the race has started (none before), and never
\* timeout-service, also when the failure came during the initial delay.
C6_FailureRoutesToFailed ==
    (get_machine_id_data = "rejected" /\ firstSettled = "machineId") =>
        lastGoto = IF race = "unstarted" THEN NoRoute ELSE SetupFailedRoute

\* machineId failed during the initial delay and the deadline has fired since
C6_Witness ==
    /\ get_machine_id_data = "rejected"
    /\ idSettledAt < InitialDelay
    /\ checkTimeout = "rejected"
    /\ lastGoto = SetupFailedRoute

\* C20 as stated: the deadline is 15 seconds counted from the end of the
\* 3-second initial delay: a machineId success that arrives after the delay
\* and less than 15 seconds after its end ends on setup-success.
C20_DeadlineCountedFromDelayEnd ==
    ( /\ get_machine_id_data = "fulfilled"
      /\ race # "unstarted"
      /\ idSettledAt >= InitialDelay
      /\ idSettledAt < InitialDelay + IdentityDeadline ) =>
        lastGoto = SetupSuccessRoute

\* C20 amended: the deadline is 15 seconds counted from the construction of
\* the screen, 12 seconds after the end of the initial delay. A machineId
\* success less than 15 seconds after construction ends on setup-success
\* once the race has started, which is at 3 seconds; a success that arrives
\* after the deadline fired ends on timeout-service.
C20_DeadlineCountedFromEntry ==
    /\ (get_machine_id_data = "fulfilled" /\ idSettledAt < IdentityDeadline
            /\ race # "unstarted") =>
           lastGoto = SetupSuccessRoute
    /\ (get_machine_id_data = "fulfilled" /\ firstSettled = "deadline") =>
           (idSettledAt >= IdentityDeadline /\ lastGoto = TimeoutServiceRoute)
    /\ checkTimeout = "rejected" => resolveClock = IdentityDeadline
    /\ race # "unstarted" => resolveClock >= InitialDelay

\* machineId succeeded after the initial delay and before the deadline
C20_Witness ==
    /\ get_machine_id_data = "fulfilled"
    /\ idSettledAt > InitialDelay
    /\ idSettledAt < IdentityDeadline
    /\ lastGoto = SetupSuccessRoute
    /\ checkTimeout = "rejected"

\* C26: identity resolution writes the id into the shared store only when its
\* outcome is setup-success: once it has gone to timeout-service (or to
\* setup-failed) the store holds no id, also when machineId answers after the
\* deadline.
C26_IdWrittenOnlyWhenConfigured ==
    lastGoto \in {TimeoutServiceRoute, SetupFailedRoute} => machineInfo = EmptyStore

---------------------------------------------------------------------------
(* Claims about the start and check-internet screens, checked under SpecHome *)

PingCalled == \E i \in DOMAIN checks : checks[i].ping # "none"

\* C10 as stated: provisionStatus is called only after a pingStatus check has
\* succeeded.
C10_ConnectivityBeforeProvisionStatus ==
    provisionStatusCalls > 0 => pingSucceeded

\* C10 amended: the order is the reverse. A check-internet screen exists, and
\* pingStatus is called, only after a provisionStatus call has answered
\* status=false; the pairing screen is requested only after a pingStatus
\* check has succeeded, so that a failed check keeps the flow out of pairing.
C10_ProvisionStatusBeforeConnectivity ==
    /\ checks # << >> => notProvisionedSeen
    /\ PingCalled => notProvisionedSeen
    /\ lastGoto = LinkMachineRoute => pingSucceeded
    /\ homeScreen = LinkMachineRoute => pingSucceeded

\* provisionStatus answered status=false, then pingStatus succeeded and the
\* pairing screen is up
C10_Witness ==
    /\ notProvisionedSeen
    /\ pingSucceeded
    /\ homeScreen = LinkMachineRoute

C16_ProvisionedReachesConfigured ==
    [][ /\ \A m \in MachineIds :
               HomeMachineIdOk(m) =>
                   /\ machineInfo'.id = m
                   /\ lastGoto' = MachineInfoRoute
                   /\ homeNav' = MachineInfoRoute
        /\ (homeMachineIdCalls' > homeMachineIdCalls) => ProvisionStatusOk(TRUE)
        /\ (homeScreen' = MachineInfoRoute) => (machineInfo'.id \in MachineIds)
      ]_vars

\* the machine-info screen is up with the id of the answer in the store
C16_Witness ==
    /\ homeScreen = MachineInfoRoute
    /\ lastGoto = MachineInfoRoute
    /\ machineInfo.id = "dev-123"
    /\ ~notProvisionedSeen

\* C27: a check-internet component that has been torn down requests no
\* screen transition, also when its pingStatus call was outstanding at the
\* teardown and answers (or fails) afterwards.
C27_NoTransitionAfterCheckTeardown ==
    [][\A i \in DOMAIN checks :
           ( /\ checks[i].ping = "outstanding"
             /\ ~checks[i].apiInProgress
             /\ (PingFail(i) \/ \E code \in PingCodes : PingOk(i, code)) ) =>
               /\ lastGoto' = lastGoto
               /\ gotoCount' = gotoCount
               /\ homeNav' = homeNav
      ]_vars

---------------------------------------------------------------------------
(* Claim about the start screen's progress, checked under SpecHomeFair *)

\* C24: once provisionStatus has reported the device as provisioned and the
\* machineId call has been started, the flow eventually requests one of the
\* configured, timed-out and failed screens, even if the call never answers.
C24_ProvisionedPathIsBounded ==
    (homeMachineIdCalls > 0) ~>
        (lastGoto \in {MachineInfoRoute, TimeoutServiceRoute, SetupFailedRoute})

---------------------------------------------------------------------------
(* Claims about the machine-info screen, checked under SpecInfo *)

\* C12: when the machine-info screen is torn down its two intervals are
\* cancelled: afterwards none of the two callbacks runs and the screen starts
\* no pingStatus and no machineInfo call.
C12_NoCallbackAfterTeardown ==
    [][~infoMounted =>
           /\ ~HealthIntervalFire
           /\ ~MetadataIntervalFire
           /\ PingsOutstanding' <= PingsOutstanding
           /\ InfoCallsOutstanding' <= InfoCallsOutstanding
      ]_vars

\* C13: on the machine-info screen no answer and no failure of a pingStatus
\* or machineInfo call, and no other step, requests a screen transition; a
\* failed pingStatus sets is_active to false and raises the error dialog with
\* its message, and leaves the identity (variables and store) alone.
C13_NoTransitionWhileConfigured ==
    [][ /\ lastGoto' = lastGoto
        /\ gotoCount' = gotoCount
        /\ (LatestPingFail \/ OlderPingFail) =>
               /\ ~is_active'
               /\ info_is_error'
               /\ info_error_message' = AgentNotReachable
               /\ machineInfo' = machineInfo
               /\ machine_name' = machine_name
               /\ machine_icon' = machine_icon
      ]_vars

\* the latest pingStatus call failed on a live screen: inactive, the error
\* dialog open, still the goto that brought the flow here
C13_Witness ==
    /\ infoMounted
    /\ latestPing = "error"
    /\ info_is_error
    /\ ~is_active
    /\ lastGoto = MachineInfoRoute
    /\ gotoCount = 1

\* C14: a metadata refresh that fails, on the invoke for the name or on the
\* invoke for the icon after the name was got, leaves machine_name,
\* machine_icon and the store as they were; the three change only in the
\* step in which the invoke for the icon answers.
C14_FailedRefreshKeepsIdentity ==
    [][ /\ (MachineNameFail \/ \E name \in MachineNames : MachineIconFail(name)) =>
               /\ machine_name' = machine_name
               /\ machine_icon' = machine_icon
               /\ machineInfo' = machineInfo
        /\ (machine_name' # machine_name \/ machine_icon' # machine_icon
                \/ machineInfo' # machineInfo) =>
               \E name \in MachineNames, icon \in IconUrls : MachineIconOk(name, icon)
      ]_vars

\* an earlier refresh has set name and icon, a later one got a name and then
\* failed on the icon
C14_Witness ==
    /\ iconFailed
    /\ infoMounted
    /\ machine_name = "Lobby"
    /\ machine_icon # ""
    /\ machineInfo.name = "Lobby"
    /\ InfoCallsOutstanding = 0

\* C15: the id in the store, written from a machineId answer before the
\* machine-info screen came up, is never changed or cleared by the screen:
\* not by a metadata refresh and its store overwrite, not by a health check.
C15_IdImmutable ==
    [][(machineInfo.id \in MachineIds) => (machineInfo'.id = machineInfo.id)]_vars

\* a refresh has overwritten name and icon in the store, a health check has
\* answered, and the id is the one the screen started with
C15_Witness ==
    /\ machineInfo.id \in MachineIds
    /\ machineInfo.id = storeData.id
    /\ machineInfo.name = "Lobby"
    /\ machineInfo.icon # ""
    /\ latestPing = "success"

\* C18: once the pingStatus call started last has answered, is_active is its
\* result, whatever calls started earlier answer afterwards.
C18_ActiveReflectsLatestProbe ==
    (latestPing \in {"success", "failure", "error"}) =>
        (is_active = (latestPing = "success"))

\* C28: while the machine-info screen is up the error dialog and the loading
\* dialog are never open together: is_error and is_loading are not both
\* true, whatever the order of the first pingStatus result, the 3 s loading
\* timeout, the later health checks and the closing of a dialog by hand.
C28_ErrorAndLoadingExclusive ==
    infoMounted => ~(info_is_error /\ is_loading)

\* the first pingStatus call failed before the 3 s timeout had fired: the
\* error dialog is open and the loading dialog was closed by the failure
C28_Witness ==
    /\ infoMounted
    /\ info_is_error
    /\ ~is_loading
    /\ loadingTimeout > 0
    /\ latestPing = "error"

=============================================================================
